---- MODULE Spec2Model ----
(***************************************************************************)
(* Model of the once-around ephemeris generators:                          *)
(*   scripts/generate_satellite_ephemeris.py  (script = "satellite")       *)
(*   scripts/generate_iss_ephemeris.py        (script = "iss")             *)
(* Both scripts run the same pipeline: validate the dates, fetch and parse *)
(* the Horizons response, write the binary file, read it back.             *)
(*                                                                         *)
(* Text is modelled as a sequence of one-character strings, bytes as       *)
(* integers 0..255, and an IEEE-754 double holding an integral value as    *)
(* that integer (the encoders below produce and consume its 64-bit image). *)
(***************************************************************************)
EXTENDS Integers, Sequences, FiniteSets, TLC

VARIABLES
    script,     \* which entry point runs: "iss" or "satellite"
    args,       \* parsed command line: [start, end, step]
    pc,         \* position in main / in the function under test
    exitCode,   \* -1 while running, then the process exit status
    exc,        \* the exception that ended the run, or NoExc
    requests,   \* the urlopen calls issued so far (their query parameters)
    response,   \* what urlopen and json.loads produced, or NoResponse
    points,     \* the list of points held by main
    warnings,   \* the lines reported by "Warning: Could not parse line"
    file,       \* bytes of the output path, or NoFile when it does not exist
    writes,     \* number of times the output path was opened for writing
    out         \* the diagnostics printed by the read-back and by main

vars == <<script, args, pc, exitCode, exc, requests, response, points, warnings,
          file, writes, out>>

----------------------------------------------------------------------------
(* Bounds of the model *)

MaxDay == 1
MaxStep == 1
MaxLines == 4
MaxRows == 4
MaxPipeRows == 3
MaxPoints == 2
MaxCount == 2

----------------------------------------------------------------------------
(* Generic helpers *)

Min(a, b) == IF a < b THEN a ELSE b

Pow2(n) == 2 ^ n

\* the sequences over S of length at most n
SeqsUpTo(S, n) == UNION {[1..k -> S] : k \in 0..n}

RECURSIVE Concat(_)
Concat(ss) == IF ss = <<>> THEN <<>> ELSE Head(ss) \o Concat(Tail(ss))

----------------------------------------------------------------------------
(* Text: str.split, str.strip, float() *)

Whitespace == {" ", "\r", "\t"}

\* str.split(sep) for a one-character separator: the parts between the
\* separators, always at least one part
Split(text, sep) ==
    LET at == {i \in 1..Len(text) : text[i] = sep}
        \* position of the k-th separator; 0 before the text, Len + 1 after it
        cut(k) == IF k = 0 THEN 0
                  ELSE IF k > Cardinality(at) THEN Len(text) + 1
                  ELSE CHOOSE i \in at : Cardinality({j \in at : j < i}) = k - 1
    IN  [k \in 1..(Cardinality(at) + 1) |-> SubSeq(text, cut(k - 1) + 1, cut(k) - 1)]

\* str.strip(): drop leading and trailing whitespace
RECURSIVE LStrip(_)
LStrip(s) == IF s # <<>> /\ Head(s) \in Whitespace THEN LStrip(Tail(s)) ELSE s

RECURSIVE RStrip(_)
RStrip(s) ==
    IF s # <<>> /\ s[Len(s)] \in Whitespace
    THEN RStrip(SubSeq(s, 1, Len(s) - 1))
    ELSE s

Strip(s) == RStrip(LStrip(s))

DigitChars == <<"0", "1", "2", "3", "4", "5", "6", "7", "8", "9">>

IsDigit(c) == \E d \in 1..10 : DigitChars[d] = c

DigitVal(c) == (CHOOSE d \in 1..10 : DigitChars[d] = c) - 1

RECURSIVE DigitsVal(_, _)
DigitsVal(s, acc) ==
    IF s = <<>> THEN acc ELSE DigitsVal(Tail(s), 10 * acc + DigitVal(Head(s)))

\* float(s) on the literals  [+-]? digit+  (surrounding whitespace allowed);
\* every other text of the model's alphabet raises ValueError
FloatBody(s) == IF s # <<>> /\ Head(s) \in {"-", "+"} THEN Tail(s) ELSE s

FloatOk(s) ==
    LET b == FloatBody(Strip(s))
    IN  b # <<>> /\ \A i \in 1..Len(b) : IsDigit(b[i])

Float(s) ==
    LET t == Strip(s)
        v == DigitsVal(FloatBody(t), 0)
    IN  IF Head(t) = "-" THEN 0 - v ELSE v

----------------------------------------------------------------------------
(* The payload lines the model feeds to the parser *)

\* "$$SOE"
SOE == <<"$", "$", "S", "O", "E">>

\* "$$EOE"
EOE == <<"$", "$", "E", "O", "E">>

\* "  $$SOE\r"
SOEPadded == <<" ", " ", "$", "$", "S", "O", "E", "\r">>

\* "JDTDB,Date,X,Y,Z"
HeaderLine == <<"J", "D", "T", "D", "B", ",", "D", "a", "t", "e", ",", "X", ",", "Y", ",", "Z">>

\* "2460000,AD 2024, 6798, 0, 0,"
RowA == <<"2", "4", "6", "0", "0", "0", "0", ",", "A", "D", " ", "2", "0", "2", "4", ",", " ", "6", "7", "9", "8", ",", " ", "0", ",", " ", "0", ",">>

\* "2460001,AD,0,6918 ,0"
RowB == <<"2", "4", "6", "0", "0", "0", "1", ",", "A", "D", ",", "0", ",", "6", "9", "1", "8", " ", ",", "0">>

\* " 2460002,AD,-3,+4,0,"
RowC == <<" ", "2", "4", "6", "0", "0", "0", "2", ",", "A", "D", ",", "-", "3", ",", "+", "4", ",", "0", ",">>

\* "2460003,AD,1,2"   (4 fields)
RowShort == <<"2", "4", "6", "0", "0", "0", "3", ",", "A", "D", ",", "1", ",", "2">>

\* "2460004,AD,n.a.,2,3"   (field 2 is no number)
RowBadX == <<"2", "4", "6", "0", "0", "0", "4", ",", "A", "D", ",", "n", ".", "a", ".", ",", "2", ",", "3">>

\* "2460006,AD,1,-,3"   (field 3 is no number)
RowBadY == <<"2", "4", "6", "0", "0", "0", "6", ",", "A", "D", ",", "1", ",", "-", ",", "3">>

\* "2460005,AD,1,2,"   (field 4 is empty)
RowBadZ == <<"2", "4", "6", "0", "0", "0", "5", ",", "A", "D", ",", "1", ",", "2", ",">>

\* "AD,1,2,3,4"   (field 0 is no number)
RowBadJd == <<"A", "D", ",", "1", ",", "2", ",", "3", ",", "4">>

\* "  "
BlankLine == <<" ", " ">>

\* "\n".join(lines)
RECURSIVE JoinLines(_)
JoinLines(ls) ==
    IF ls = <<>> THEN <<>>
    ELSE IF Len(ls) = 1 THEN ls[1]
    ELSE ls[1] \o <<"\n">> \o JoinLines(Tail(ls))

MarkerLines == {SOE, SOEPadded, EOE, RowA, RowC, RowShort, HeaderLine}

DataRows == {RowA, RowB, RowShort, RowBadJd, RowBadX, RowBadY, RowBadZ, BlankLine}

\* payloads with the markers anywhere, any number of times
MarkerPayloads == {JoinLines(ls) : ls \in SeqsUpTo(MarkerLines, MaxLines)}

\* payloads with one data span holding any rows
SpanPayloads ==
    {JoinLines(<<HeaderLine, SOE>> \o rows \o <<EOE>>) : rows \in SeqsUpTo(DataRows, MaxRows)}

----------------------------------------------------------------------------
(* fetch_satellite_vectors / fetch_iss_vectors: the parsing loop *)

WarnPrefixLen == 50

NoPoint == [jd |-> 0, x |-> 0, y |-> 0, z |-> 0]

\* a row parser that reads x, y, z from fields 1, 2, 3
ParseRowWrongColumn(line) ==
    LET parts == Split(line, ",")
    IN  IF Len(parts) >= 5
        THEN IF /\ FloatOk(parts[1]) /\ FloatOk(parts[2])
                /\ FloatOk(parts[3]) /\ FloatOk(parts[4])
             THEN [kind |-> "point",
                   point |-> [jd |-> Float(parts[1]), x |-> Float(parts[2]),
                              y |-> Float(parts[3]), z |-> Float(parts[4])]]
             ELSE [kind |-> "warn", point |-> NoPoint]
        ELSE [kind |-> "skip", point |-> NoPoint]

\* lines 124-133 (satellite), 112-121 (iss): one non-empty stripped line of
\* the data span.  kind is "point" (appended), "warn" (ValueError caught and
\* printed) or "skip" (fewer than 5 parts: nothing happens).
ParseRow(line) ==
    LET parts == Split(line, ",")
    IN  IF Len(parts) >= 5
        THEN IF /\ FloatOk(parts[1]) /\ FloatOk(parts[3])
                /\ FloatOk(parts[4]) /\ FloatOk(parts[5])
             THEN [kind |-> "point",
                   point |-> [jd |-> Float(parts[1]), x |-> Float(parts[3]),
                              y |-> Float(parts[4]), z |-> Float(parts[5])]]
             ELSE [kind |-> "warn", point |-> NoPoint]
        ELSE [kind |-> "skip", point |-> NoPoint]

\* line[:50], the part of the line the warning shows
WarnText(line) == SubSeq(line, 1, Min(WarnPrefixLen, Len(line)))

\* a loop that goes on past "$$EOE" instead of leaving
RECURSIVE ParseLinesNoBreak(_, _, _, _, _)
ParseLinesNoBreak(lines, i, in_data, pts, warns) ==
    IF i > Len(lines) THEN [points |-> pts, warnings |-> warns]
    ELSE LET line == Strip(lines[i])
         IN  IF line = SOE
             THEN ParseLinesNoBreak(lines, i + 1, TRUE, pts, warns)
             ELSE IF line = EOE
             THEN ParseLinesNoBreak(lines, i + 1, FALSE, pts, warns)
             ELSE IF in_data /\ line # <<>>
             THEN LET row == ParseRow(line)
                  IN  ParseLinesNoBreak(lines, i + 1, in_data,
                        IF row.kind = "point" THEN Append(pts, row.point) ELSE pts,
                        IF row.kind = "warn" THEN Append(warns, WarnText(line)) ELSE warns)
             ELSE ParseLinesNoBreak(lines, i + 1, in_data, pts, warns)

\* lines 113-133 (satellite), 101-121 (iss): the for loop, from line i on
RECURSIVE ParseLines(_, _, _, _, _)
ParseLines(lines, i, in_data, pts, warns) ==
    IF i > Len(lines) THEN [points |-> pts, warnings |-> warns]
    ELSE LET line == Strip(lines[i])
         IN  IF line = SOE
             THEN ParseLines(lines, i + 1, TRUE, pts, warns)
             ELSE IF line = EOE
             THEN [points |-> pts, warnings |-> warns]
             ELSE IF in_data /\ line # <<>>
             THEN LET row == ParseRow(line)
                  IN  ParseLines(lines, i + 1, in_data,
                        IF row.kind = "point" THEN Append(pts, row.point) ELSE pts,
                        IF row.kind = "warn" THEN Append(warns, WarnText(line)) ELSE warns)
             ELSE ParseLines(lines, i + 1, in_data, pts, warns)

\* lines 106-136 (satellite), 94-124 (iss): result_text to the list of points
ParseResult(result_text) == ParseLines(Split(result_text, "\n"), 1, FALSE, <<>>, <<>>)

----------------------------------------------------------------------------
(* struct.pack / struct.unpack: "<I" and "<dddd" *)

HeaderSize == 4
RecordSize == 32
DoubleSize == 8
ExponentBias == 1023

\* largest e with 2^e <= v, for 1 <= v < 2^30
Log2(v) == CHOOSE e \in 0..29 : Pow2(e) <= v /\ v < Pow2(e + 1)

\* value of a big-endian bit sequence shorter than 31 bits
RECURSIVE BitsVal(_, _)
BitsVal(bits, acc) ==
    IF bits = <<>> THEN acc ELSE BitsVal(Tail(bits), 2 * acc + Head(bits))

\* the 64 bits of the double that holds the integer v: sign, 11 exponent
\* bits, 52 fraction bits, most significant first
F64Bits(v) ==
    IF v = 0 THEN [i \in 1..64 |-> 0]
    ELSE LET a == IF v < 0 THEN 0 - v ELSE v
             e == Log2(a)
             biased == ExponentBias + e
             frac == a - Pow2(e)
         IN  [i \in 1..64 |->
                IF i = 1 THEN (IF v < 0 THEN 1 ELSE 0)
                ELSE IF i <= 12 THEN (biased \div Pow2(12 - i)) % 2
                ELSE IF i - 12 <= e THEN (frac \div Pow2(e - (i - 12))) % 2
                ELSE 0]

\* struct.pack("<d", v): the 8 bytes, least significant byte first
PackF64(v) ==
    LET bits == F64Bits(v)
    IN  [k \in 1..DoubleSize |->
            BitsVal(SubSeq(bits, 8 * (DoubleSize - k) + 1, 8 * (DoubleSize - k + 1)), 0)]

ByteBits(b) == [j \in 1..8 |-> (b \div Pow2(8 - j)) % 2]

\* struct.unpack("<d", bytes): the integer the double holds.  A double that
\* holds no integer below 2^30 is outside the model: NotIntegral.
NotIntegral == "not an integer below 2^30"

UnpackF64(bytes) ==
    LET bits == Concat([k \in 1..DoubleSize |-> ByteBits(bytes[DoubleSize + 1 - k])])
        biased == BitsVal(SubSeq(bits, 2, 12), 0)
        e == biased - ExponentBias
        fracBits == SubSeq(bits, 13, 64)
    IN  IF \A i \in 2..64 : bits[i] = 0 THEN 0
        ELSE IF e < 0 \/ e > 29 \/ \E i \in (e + 1)..52 : fracBits[i] # 0
        THEN NotIntegral
        ELSE LET a == Pow2(e) + BitsVal(SubSeq(fracBits, 1, e), 0)
             IN  IF bits[1] = 1 THEN 0 - a ELSE a

\* struct.pack("<I", n) written most significant byte first
PackU32BigEndian(n) ==
    <<(n \div 16777216) % 256, (n \div 65536) % 256, (n \div 256) % 256, n % 256>>

\* struct.pack("<I", n), for n < 2^31
PackU32(n) ==
    <<n % 256, (n \div 256) % 256, (n \div 65536) % 256, (n \div 16777216) % 256>>

\* struct.unpack("<I", bytes)[0], for a 4-byte value below 2^31
UnpackU32(bytes) ==
    bytes[1] + 256 * bytes[2] + 65536 * bytes[3] + 16777216 * bytes[4]

\* a record written as jd, y, x, z
PackPointSwapped(p) == PackF64(p.jd) \o PackF64(p.y) \o PackF64(p.x) \o PackF64(p.z)

\* struct.pack("<dddd", p["jd"], p["x"], p["y"], p["z"])
PackPoint(p) == PackF64(p.jd) \o PackF64(p.x) \o PackF64(p.y) \o PackF64(p.z)

\* struct.unpack("<dddd", bytes) of exactly 32 bytes
UnpackPoint(bytes) ==
    [jd |-> UnpackF64(SubSeq(bytes, 1, 8)),   x |-> UnpackF64(SubSeq(bytes, 9, 16)),
     y  |-> UnpackF64(SubSeq(bytes, 17, 24)), z |-> UnpackF64(SubSeq(bytes, 25, 32))]

----------------------------------------------------------------------------
(* write_binary_ephemeris *)

\* lines 149-155 (satellite), 137-143 (iss): the bytes the file holds after
\* the with block
FileBytes(pts) ==
    PackU32(Len(pts)) \o Concat([i \in 1..Len(pts) |-> PackPoint(pts[i])])

----------------------------------------------------------------------------
(* verify_binary_ephemeris *)

EarthRadiusKm == 6378

\* (n) ** 0.5 for a perfect square n; the largest r with r*r <= n otherwise
RECURSIVE SqrtBetween(_, _, _)
SqrtBetween(n, lo, hi) ==
    IF lo >= hi THEN lo
    ELSE LET mid == (lo + hi + 1) \div 2
         IN  IF mid * mid <= n THEN SqrtBetween(n, mid, hi)
             ELSE SqrtBetween(n, lo, mid - 1)

Sqrt(n) == SqrtBetween(n, 0, Min(n, 46340))

\* (x*x + y*y + z*z) ** 0.5
Radius(p) == Sqrt(p.x * p.x + p.y * p.y + p.z * p.z)

\* f.read(n) with the file position at pos: short at the end of the file
Read(bytes, pos, n) == SubSeq(bytes, pos + 1, Min(pos + n, Len(bytes)))

Printed(tag, vals) == [tag |-> tag, vals |-> vals]

PointLine(tag, p) == Printed(tag, <<p.jd, p.x, p.y, p.z, Radius(p)>>)

\* lines 180-183 (satellite): the altitude lines, printed from the r computed
\* last; the iss script's read-back has no such lines
OrbitalInfo(name, orbital_altitude, r) ==
    IF name = "satellite"
    THEN <<Printed("expected_altitude", <<orbital_altitude>>),
           Printed("actual_altitude", <<r - EarthRadiusKm>>)>>
    ELSE <<>>

\* a read-back that decodes the first record a second time as the last one
VerifyLastIsFirst(bytes, name, orbital_altitude) ==
    LET header == Read(bytes, 0, HeaderSize)
        count == UnpackU32(header)
        firstBytes == Read(bytes, HeaderSize, RecordSize)
        first == UnpackPoint(firstBytes)
    IN  IF Len(header) # HeaderSize THEN [raised |-> TRUE, printed |-> <<>>]
        ELSE IF count = 0 THEN [raised |-> FALSE, printed |-> <<Printed("count", <<count>>)>>]
        ELSE IF Len(firstBytes) # RecordSize
        THEN [raised |-> TRUE, printed |-> <<Printed("count", <<count>>)>>]
        ELSE IF count = 1
        THEN [raised |-> FALSE,
              printed |-> <<Printed("count", <<count>>), PointLine("first", first)>>
                          \o OrbitalInfo(name, orbital_altitude, Radius(first))]
        ELSE [raised |-> FALSE,
              printed |-> <<Printed("count", <<count>>), PointLine("first", first),
                            PointLine("last", first)>>
                          \o OrbitalInfo(name, orbital_altitude, Radius(first))]

\* lines 163-183 (satellite), 151-166 (iss).  struct.unpack raises
\* struct.error when f.read returned fewer bytes than the format needs;
\* printed holds what was printed before that.
Verify(bytes, name, orbital_altitude) ==
    LET header == Read(bytes, 0, HeaderSize)
        count == UnpackU32(header)
        firstBytes == Read(bytes, HeaderSize, RecordSize)
        first == UnpackPoint(firstBytes)
        lastBytes == Read(bytes, HeaderSize + (count - 1) * RecordSize, RecordSize)
        last == UnpackPoint(lastBytes)
    IN  IF Len(header) # HeaderSize THEN [raised |-> TRUE, printed |-> <<>>]
        ELSE IF count = 0 THEN [raised |-> FALSE, printed |-> <<Printed("count", <<count>>)>>]
        ELSE IF Len(firstBytes) # RecordSize
        THEN [raised |-> TRUE, printed |-> <<Printed("count", <<count>>)>>]
        ELSE IF count = 1
        THEN [raised |-> FALSE,
              printed |-> <<Printed("count", <<count>>), PointLine("first", first)>>
                          \o OrbitalInfo(name, orbital_altitude, Radius(first))]
        ELSE IF Len(lastBytes) # RecordSize
        THEN [raised |-> TRUE,
              printed |-> <<Printed("count", <<count>>), PointLine("first", first)>>]
        ELSE [raised |-> FALSE,
              printed |-> <<Printed("count", <<count>>), PointLine("first", first),
                            PointLine("last", last)>>
                          \o OrbitalInfo(name, orbital_altitude, Radius(last))]

----------------------------------------------------------------------------
(* The remote service's answers and fetch_*_vectors *)

NoField == <<>>

Envelope(hasError, error, hasResult, result) ==
    [hasError |-> hasError, error |-> error, hasResult |-> hasResult, result |-> result]

NoData == Envelope(FALSE, NoField, FALSE, NoField)

NoResponse == [kind |-> "none", data |-> NoData]

ServiceMessage == <<"N", "o", " ", "e", "p", "h", "e", "m">>

\* the payloads the pipeline receives: a header, the markers, some rows
PipeRows == {RowA, RowB, RowC, RowShort}

PipePayloads ==
    {JoinLines(<<HeaderLine, SOE>> \o rows \o <<EOE>>) : rows \in SeqsUpTo(PipeRows, MaxPipeRows)}

\* what urlopen / response.read / json.loads produce: an exception, or the
\* decoded envelope
Responses ==
    {[kind |-> k, data |-> NoData] : k \in {"URLError", "timeout", "JSONDecodeError"}}
    \cup {[kind |-> "json", data |-> Envelope(FALSE, NoField, TRUE, t)] : t \in PipePayloads}
    \cup {[kind |-> "json", data |-> Envelope(TRUE, ServiceMessage, TRUE, t)] :
             t \in {JoinLines(<<SOE, RowA, EOE>>)}}
    \cup {[kind |-> "json", data |-> Envelope(TRUE, ServiceMessage, FALSE, NoField)],
          [kind |-> "json", data |-> Envelope(FALSE, NoField, FALSE, NoField)]}

NoExc == [type |-> "none", msg |-> <<>>]

Raise(type, msg) == [type |-> type, msg |-> msg]

\* an envelope check that looks for the result first
CheckEnvelopeResultFirst(d) ==
    IF d.hasResult THEN NoExc
    ELSE IF d.hasError THEN Raise("RuntimeError", <<"Horizons API error: ", d.error>>)
    ELSE Raise("RuntimeError", <<"Unexpected API response format">>)

\* lines 99-103 (satellite), 87-91 (iss)
CheckEnvelope(d) ==
    IF d.hasError THEN Raise("RuntimeError", <<"Horizons API error: ", d.error>>)
    ELSE IF ~d.hasResult THEN Raise("RuntimeError", <<"Unexpected API response format">>)
    ELSE NoExc

\* lines 96-136 (satellite), 84-124 (iss): from the answer of urlopen to the
\* return value or the exception
FetchVectors(resp) ==
    LET none == [raised |-> NoExc, points |-> <<>>, warnings |-> <<>>, printed |-> <<>>]
    IN  IF resp.kind # "json"
        THEN [none EXCEPT !.raised = Raise(resp.kind, <<>>)]
        ELSE IF CheckEnvelope(resp.data) # NoExc
        THEN [none EXCEPT !.raised = CheckEnvelope(resp.data)]
        ELSE LET parsed == ParseResult(resp.data.result)
             IN  [raised |-> NoExc, points |-> parsed.points,
                  warnings |-> parsed.warnings,
                  printed |-> <<Printed("parsed", <<Len(parsed.points)>>)>>]

\* str(n) for an integer
RECURSIVE NatText(_)
NatText(n) == IF n < 10 THEN <<DigitChars[n + 1]>> ELSE NatText(n \div 10) \o <<DigitChars[(n % 10) + 1]>>

IntText(n) == IF n < 0 THEN <<"-">> \o NatText(0 - n) ELSE NatText(n)

\* SATELLITES (satellite script) and ISS_ID (iss script)
HorizonsId(satellite) == IF satellite = "hubble" THEN "-48" ELSE "-125544"

IssAltitudeKm == 420
HubbleAltitudeKm == 540

OrbitalAltitude(satellite) == IF satellite = "hubble" THEN HubbleAltitudeKm ELSE IssAltitudeKm

\* lines 69-84 (satellite), 57-72 (iss): the parameters that depend on the call
RequestParams(a) ==
    [COMMAND |-> HorizonsId(a.satellite), START_TIME |-> a.start, STOP_TIME |-> a.end,
     STEP_SIZE |-> IntText(a.step) \o <<"m">>]

----------------------------------------------------------------------------
(* main *)

MinutesPerDay == 1440
LargeQuery == 90000
FarDay == 63

NoFile == [exists |-> FALSE, bytes |-> <<>>]

\* int(a / b): Python truncates toward zero
TruncDiv(a, b) ==
    LET q == (IF a < 0 THEN 0 - a ELSE a) \div (IF b < 0 THEN 0 - b ELSE b)
    IN  IF (a < 0) = (b < 0) THEN q ELSE 0 - q

\* a date check that lets end == start through
DatesRejectedStrict(a) == a.end < a.start

\* line 236 (satellite), 207 (iss): if args.end <= args.start
DatesRejected(a) == a.end <= a.start

\* an emptiness check that never fires
NoPointsNever(pts) == Len(pts) < 0

\* line 254 (satellite), 225 (iss): if not points
NoPoints(pts) == pts = <<>>

Days == 0..MaxDay \cup {FarDay}
Steps == -1..MaxStep

Entries ==
    {[script |-> "iss", satellite |-> "iss"],
     [script |-> "satellite", satellite |-> "iss"],
     [script |-> "satellite", satellite |-> "hubble"]}

Idle ==
    /\ exitCode = -1
    /\ exc = NoExc
    /\ requests = <<>>
    /\ response = NoResponse
    /\ points = <<>>
    /\ warnings = <<>>
    /\ file = NoFile
    /\ writes = 0
    /\ out = <<>>

\* after parser.parse_args(): lines 226-233 (satellite), 204 (iss)
Init ==
    /\ \E e \in Entries, s \in Days, n \in Days, st \in Steps :
          /\ script = e.script
          /\ args = [satellite |-> e.satellite, start |-> s, end |-> n, step |-> st]
    /\ pc = "main"
    /\ Idle

Exit(code, e, printed) ==
    /\ pc' = "exit"
    /\ exitCode' = code
    /\ exc' = e
    /\ out' = out \o printed

\* lines 235-248 (satellite), 206-219 (iss)
ValidateDates ==
    /\ pc = "main"
    /\ IF DatesRejected(args)
       THEN Exit(1, Raise("SystemExit", <<>>), <<Printed("error_dates", <<>>)>>)
       ELSE IF args.step = 0
       THEN Exit(1, Raise("ZeroDivisionError", <<>>), <<>>)
       ELSE LET duration_minutes == (args.end - args.start) * MinutesPerDay
                expected_points == TruncDiv(duration_minutes, args.step) + 1
            IN  /\ pc' = "fetch"
                /\ out' = out \o <<Printed("expected", <<expected_points>>)>>
                          \o (IF expected_points > LargeQuery
                              THEN <<Printed("large_query", <<expected_points>>)>>
                              ELSE <<>>)
                /\ UNCHANGED <<exitCode, exc>>
    /\ UNCHANGED <<script, args, requests, response, points, warnings, file, writes>>

\* line 252 (satellite), 223 (iss), with the except clauses of main
Fetch ==
    /\ pc = "fetch"
    /\ \E r \in Responses :
          LET got == FetchVectors(r)
          IN  /\ requests' = Append(requests, RequestParams(args))
              /\ response' = r
              /\ points' = got.points
              /\ warnings' = got.warnings
              /\ IF got.raised # NoExc
                 THEN Exit(1, got.raised,
                           <<Printed(IF got.raised.type = "URLError"
                                     THEN "error_fetching" ELSE "error", <<>>)>>)
                 ELSE /\ pc' = "check"
                      /\ out' = out \o got.printed
                      /\ UNCHANGED <<exitCode, exc>>
    /\ UNCHANGED <<script, args, file, writes>>

\* lines 254-256 (satellite), 225-227 (iss): sys.exit(1) raises SystemExit,
\* which "except Exception" does not catch
CheckPoints ==
    /\ pc = "check"
    /\ IF NoPoints(points)
       THEN Exit(1, Raise("SystemExit", <<>>), <<Printed("error_no_points", <<>>)>>)
       ELSE /\ pc' = "write"
            /\ UNCHANGED <<exitCode, exc, out>>
    /\ UNCHANGED <<script, args, requests, response, points, warnings, file, writes>>

\* line 259 (satellite), 230 (iss): the file is written
Write ==
    /\ pc = "write"
    /\ file' = [exists |-> TRUE, bytes |-> FileBytes(points)]
    /\ writes' = writes + 1
    /\ pc' = "verify"
    /\ out' = out \o <<Printed("wrote", <<Len(points), Len(file'.bytes)>>)>>
    /\ UNCHANGED <<script, args, exitCode, exc, requests, response, points, warnings>>

\* line 259 (satellite), 230 (iss): mkdir or open raises OSError
WriteFails ==
    /\ pc = "write"
    /\ Exit(1, Raise("OSError", <<>>), <<Printed("error", <<>>)>>)
    /\ UNCHANGED <<script, args, requests, response, points, warnings, file, writes>>

\* lines 236-239 (iss): the altitude line of the iss script, from points[0]
IssOrbitInfo(name, pts) ==
    IF name = "iss" /\ Len(pts) >= 2
    THEN <<Printed("iss_altitude", <<Radius(pts[1]) - EarthRadiusKm>>)>>
    ELSE <<>>

\* lines 262-264 (satellite), 233-241 (iss): read back, report, "Done!"
VerifyAndFinish ==
    /\ pc = "verify"
    /\ LET v == Verify(file.bytes, script, OrbitalAltitude(args.satellite))
       IN  IF v.raised
           THEN Exit(1, Raise("struct.error", <<>>), v.printed \o <<Printed("error", <<>>)>>)
           ELSE Exit(0, NoExc, v.printed \o IssOrbitInfo(script, points)
                               \o <<Printed("done", <<>>)>>)
    /\ UNCHANGED <<script, args, requests, response, points, warnings, file, writes>>

Next == ValidateDates \/ Fetch \/ CheckPoints \/ Write \/ WriteFails \/ VerifyAndFinish

Spec == Init /\ [][Next]_vars

----------------------------------------------------------------------------
(* The parser alone: fetch_*_vectors applied to one received envelope *)

ParserInputs ==
    {[kind |-> "json", data |-> Envelope(FALSE, NoField, TRUE, t)] :
        t \in MarkerPayloads \cup SpanPayloads}

InitParse ==
    /\ script = "satellite"
    /\ args = [satellite |-> "iss", start |-> 0, end |-> 1, step |-> 1]
    /\ pc = "parse"
    /\ exitCode = -1
    /\ exc = NoExc
    /\ requests = <<RequestParams(args)>>
    /\ response \in ParserInputs
    /\ points = <<>>
    /\ warnings = <<>>
    /\ file = NoFile
    /\ writes = 0
    /\ out = <<>>

\* lines 99-136 (satellite), 87-124 (iss)
ParseResponse ==
    /\ pc = "parse"
    /\ LET got == FetchVectors(response)
       IN  /\ points' = got.points
           /\ warnings' = got.warnings
           /\ exc' = got.raised
           /\ out' = out \o got.printed
    /\ pc' = "parsed"
    /\ UNCHANGED <<script, args, exitCode, requests, response, file, writes>>

NextParse == ParseResponse

SpecParse == InitParse /\ [][NextParse]_vars

----------------------------------------------------------------------------
(* The writer alone: write_binary_ephemeris applied to one list of points *)

SamplePoints ==
    {[jd |-> t, x |-> a, y |-> b, z |-> c] :
        t \in {0, 2460000}, a \in {-3, 6798}, b \in {0, 1}, c \in {0, 5}}

InitEncode ==
    /\ script \in {"iss", "satellite"}
    /\ args = [satellite |-> "iss", start |-> 0, end |-> 1, step |-> 1]
    /\ pc = "encode"
    /\ exitCode = -1
    /\ exc = NoExc
    /\ requests = <<>>
    /\ response = NoResponse
    /\ points \in SeqsUpTo(SamplePoints, MaxPoints)
    /\ warnings = <<>>
    /\ file = NoFile
    /\ writes = 0
    /\ out = <<>>

\* lines 149-158 (satellite), 137-146 (iss)
WriteBinaryEphemeris ==
    /\ pc = "encode"
    /\ file' = [exists |-> TRUE, bytes |-> FileBytes(points)]
    /\ writes' = writes + 1
    /\ out' = out \o <<Printed("wrote", <<Len(points), Len(file'.bytes)>>)>>
    /\ pc' = "encoded"
    /\ UNCHANGED <<script, args, exitCode, exc, requests, response, points, warnings>>

NextEncode == WriteBinaryEphemeris

SpecEncode == InitEncode /\ [][NextEncode]_vars

----------------------------------------------------------------------------
(* The read-back alone: verify_binary_ephemeris applied to any file *)

\* the records a file body is cut from
BodyPoint(i) ==
    [jd |-> 2460000 + i, x |-> IF i % 2 = 1 THEN 6798 ELSE 0,
     y |-> IF i % 2 = 1 THEN 0 ELSE 6918, z |-> 0]

\* files of every length up to one record more than MaxCount records, whose
\* first four bytes declare any count up to MaxCount + 1, or 256
DeclaredCounts == 0..(MaxCount + 1) \cup {256}

FileLengths == 0..(HeaderSize + RecordSize * (MaxCount + 1))

AnyFiles ==
    {SubSeq(PackU32(c) \o Concat([i \in 1..(MaxCount + 1) |-> PackPoint(BodyPoint(i))]), 1, n) :
        c \in DeclaredCounts, n \in FileLengths}

InitDecode ==
    /\ script \in {"iss", "satellite"}
    /\ args = [satellite |-> "iss", start |-> 0, end |-> 1, step |-> 1]
    /\ pc = "verify"
    /\ exitCode = -1
    /\ exc = NoExc
    /\ requests = <<>>
    /\ response = NoResponse
    /\ points = <<>>
    /\ warnings = <<>>
    /\ \E b \in AnyFiles : file = [exists |-> TRUE, bytes |-> b]
    /\ writes = 0
    /\ out = <<>>

\* lines 161-183 (satellite), 149-166 (iss)
VerifyBinaryEphemeris ==
    /\ pc = "verify"
    /\ LET v == Verify(file.bytes, script, OrbitalAltitude(args.satellite))
       IN  /\ exc' = IF v.raised THEN Raise("struct.error", <<>>) ELSE NoExc
           /\ out' = out \o v.printed
    /\ pc' = "verified"
    /\ UNCHANGED <<script, args, exitCode, requests, response, points, warnings,
                   file, writes>>

NextDecode == VerifyBinaryEphemeris

SpecDecode == InitDecode /\ [][NextDecode]_vars

----------------------------------------------------------------------------
(* Properties *)

HasPrinted(tag) == \E i \in 1..Len(out) : out[i].tag = tag

PrintedVals(tag) == {out[i].vals : i \in {j \in 1..Len(out) : out[j].tag = tag}}

FetchFailures == {"URLError", "timeout", "JSONDecodeError", "RuntimeError"}

\* C1: when the end date is not after the start date (end == start
\* included), main exits with status 1 and no request is ever sent to the
\* remote service.
C1_NoFetchOnInvalidWindow ==
    args.end <= args.start =>
        /\ requests = <<>>
        /\ response = NoResponse
        /\ pc \in {"main", "exit"}
        /\ pc = "exit" => exitCode = 1 /\ exc.type = "SystemExit"

C1_Witness ==
    /\ pc = "exit"
    /\ args.end = args.start
    /\ exitCode = 1
    /\ HasPrinted("error_dates")

\* C2: the output file is written only after a fetch that succeeded and
\* parsed to a non-empty list; a run that ends in an invalid window, a
\* transport or timeout failure, an upstream error, a malformed response or
\* an empty result has written nothing.
C2_WriteOnlyAfterNonEmptyFetch ==
    /\ (writes > 0 \/ file # NoFile) =>
          /\ requests # <<>>
          /\ response.kind = "json"
          /\ ~response.data.hasError
          /\ response.data.hasResult
          /\ points # <<>>
    /\ (pc = "exit" /\ (exc.type \in FetchFailures \/ exc.type = "SystemExit")) =>
          writes = 0 /\ file = NoFile

C2_Witness ==
    /\ pc = "exit"
    /\ exitCode = 1
    /\ response.kind = "json"
    /\ response.data.hasResult
    /\ ~response.data.hasError
    /\ points = <<>>
    /\ HasPrinted("error_no_points")
    /\ writes = 0

\* C3: an envelope with an error field fails with the service's message and
\* nothing is parsed, even when a result field is present too; an envelope
\* with neither field fails as an unexpected response; the lines are parsed
\* only when the error field is absent and the result field is present.
C3_EnvelopeChecks ==
    response.kind = "json" =>
        /\ response.data.hasError =>
              /\ exc = Raise("RuntimeError", <<"Horizons API error: ", response.data.error>>)
              /\ ~HasPrinted("parsed")
              /\ points = <<>> /\ warnings = <<>>
        /\ (~response.data.hasError /\ ~response.data.hasResult) =>
              /\ exc = Raise("RuntimeError", <<"Unexpected API response format">>)
              /\ ~HasPrinted("parsed")
              /\ points = <<>> /\ warnings = <<>>
        /\ HasPrinted("parsed") <=> (~response.data.hasError /\ response.data.hasResult)

C3_Witness ==
    /\ response.kind = "json"
    /\ response.data.hasError
    /\ response.data.hasResult
    /\ pc = "exit"
    /\ exc.type = "RuntimeError"

\* What the parsing claims speak of, read off the received text
PayloadLines == Split(response.data.result, "\n")

IsMarker(line, marker) == Strip(line) = marker

\* index of the first end marker, or one past the last line
FirstEOE ==
    LET at == {i \in 1..Len(PayloadLines) : IsMarker(PayloadLines[i], EOE)}
    IN  IF at = {} THEN Len(PayloadLines) + 1 ELSE CHOOSE i \in at : \A j \in at : i <= j

\* index of the first start marker before the end marker, or FirstEOE
FirstSOE ==
    LET at == {i \in 1..(FirstEOE - 1) : IsMarker(PayloadLines[i], SOE)}
    IN  IF at = {} THEN FirstEOE ELSE CHOOSE i \in at : \A j \in at : i <= j

\* the lines after the start marker and before the end marker
SpanLines == SubSeq(PayloadLines, FirstSOE + 1, FirstEOE - 1)

Fields(line) == Split(Strip(line), ",")

IsRow(line) == Strip(line) # <<>> /\ Strip(line) # SOE

HasFiveFields(line) == Len(Fields(line)) >= 5

NumbersParse(line) ==
    \A k \in {1, 3, 4, 5} : FloatOk(Fields(line)[k])

WellFormed(line) == IsRow(line) /\ HasFiveFields(line) /\ NumbersParse(line)

SampleOf(line) ==
    [jd |-> Float(Fields(line)[1]), x |-> Float(Fields(line)[3]),
     y |-> Float(Fields(line)[4]), z |-> Float(Fields(line)[5])]

SamplesOf(ls) ==
    LET good == SelectSeq(ls, WellFormed)
    IN  [i \in 1..Len(good) |-> SampleOf(good[i])]

\* C4: the samples are those of the lines after the first start marker and
\* before the first end marker, in order; nothing before the start marker or
\* after the end marker contributes; without a start marker the result is
\* empty and no error is raised; without an end marker the lines up to the
\* end of the text are processed.
C4_OnlySpanLinesContribute ==
    pc = "parsed" =>
        /\ exc = NoExc
        /\ points = SamplesOf(SpanLines)
        /\ (\A i \in 1..Len(PayloadLines) : ~IsMarker(PayloadLines[i], SOE)) => points = <<>>
        /\ (\A i \in 1..Len(PayloadLines) : ~IsMarker(PayloadLines[i], EOE)) =>
              points = SamplesOf(SubSeq(PayloadLines, FirstSOE + 1, Len(PayloadLines)))

C4_Witness ==
    /\ pc = "parsed"
    /\ points # <<>>
    /\ FirstEOE <= Len(PayloadLines)
    /\ \E i \in (FirstEOE + 1)..Len(PayloadLines) : WellFormed(PayloadLines[i])

C4_WitnessBeforeStart ==
    /\ pc = "parsed"
    /\ points # <<>>
    /\ FirstEOE > Len(PayloadLines)
    /\ \E i \in 1..(FirstSOE - 1) : WellFormed(PayloadLines[i])

C4_WitnessNoStart ==
    /\ pc = "parsed"
    /\ \E i \in 1..Len(PayloadLines) : WellFormed(PayloadLines[i])
    /\ \A i \in 1..Len(PayloadLines) : ~IsMarker(PayloadLines[i], SOE)
    /\ \E i \in 1..Len(PayloadLines) : IsMarker(PayloadLines[i], EOE)

\* the rows of the span that have five fields and a number that fails to parse
BadNumberRow(line) == IsRow(line) /\ HasFiveFields(line) /\ ~NumbersParse(line)

ShortRow(line) == IsRow(line) /\ ~HasFiveFields(line)

Malformed(line) == IsRow(line) /\ ~WellFormed(line)

WarnedOf(ls) ==
    LET bad == SelectSeq(ls, BadNumberRow)
    IN  [i \in 1..Len(bad) |-> Strip(bad[i])]

C5_WitnessWarned ==
    /\ pc = "parsed"
    /\ Len(points) = 2
    /\ Len(warnings) = 2
    /\ warnings[1] # warnings[2]

\* the 8 bytes at a byte offset of the file (offsets count from 0)
DoubleAt(offset) == UnpackF64(SubSeq(file.bytes, offset + 1, offset + DoubleSize))

\* C6: the file written for n points is 4 + 32*n bytes long, starts with n
\* as a little-endian u32, and holds the i-th point (from 0) at offset
\* 4 + 32*i as four little-endian doubles time, x, y, z, in the list's order.
C6_FileLayout ==
    pc = "encoded" =>
        /\ Len(file.bytes) = 4 + 32 * Len(points)
        /\ UnpackU32(SubSeq(file.bytes, 1, 4)) = Len(points)
        /\ SubSeq(file.bytes, 2, 4) = <<0, 0, 0>>
        /\ \A i \in 0..(Len(points) - 1) :
              /\ DoubleAt(4 + 32 * i) = points[i + 1].jd
              /\ DoubleAt(12 + 32 * i) = points[i + 1].x
              /\ DoubleAt(20 + 32 * i) = points[i + 1].y
              /\ DoubleAt(28 + 32 * i) = points[i + 1].z

C6_Witness ==
    /\ pc = "encoded"
    /\ Len(points) = 2
    /\ points[1].x # points[2].x
    /\ points[1].x # points[1].y
    /\ points[2].x < 0
    /\ Len(file.bytes) = 68

\* the count a file declares in its first four bytes
DeclaredCount == UnpackU32(SubSeq(file.bytes, 1, 4))

Rejected == exc.type = "struct.error"

C7_WitnessRejected ==
    /\ pc = "verified"
    /\ Rejected
    /\ Len(file.bytes) >= 4
    /\ DeclaredCount = 2
    /\ Len(file.bytes) = 4 + 32 * DeclaredCount - 1

\* what the read-back decoded from the file: the records of its point lines
DecodedPoint(vals) == [jd |-> vals[1], x |-> vals[2], y |-> vals[3], z |-> vals[4]]

DecodedStream ==
    LET pointLines == SelectSeq(out, LAMBDA e : e.tag \in {"first", "last"})
    IN  [i \in 1..Len(pointLines) |-> DecodedPoint(pointLines[i].vals)]

Succeeded == pc = "exit" /\ exitCode = 0

C9_StepIsPositive ==
    /\ requests # <<>> => args.step >= 1
    /\ args.step <= 0 => requests = <<>>

AltitudesReported ==
    PrintedVals("actual_altitude") \cup PrintedVals("iss_altitude")

\* C10: a successful run reports r and the altitude r - 6378 for the first
\* record and, when there is more than one point, for the last record too;
\* a first sample (6798, 0, 0) is reported at 420 km whatever follows it.
C10_AltitudeOfFirstAndLast ==
    (Succeeded /\ args.step >= 1) =>
        /\ \E v \in PrintedVals("first") : v[5] = Radius(points[1])
        /\ <<Radius(points[1]) - 6378>> \in AltitudesReported
        /\ Len(points) > 1 =>
              /\ \E v \in PrintedVals("last") : v[5] = Radius(points[Len(points)])
              /\ <<Radius(points[Len(points)]) - 6378>> \in AltitudesReported
        /\ (points[1].x = 6798 /\ points[1].y = 0 /\ points[1].z = 0) =>
              <<420>> \in AltitudesReported

====
